---- MODULE Spec2Model ----
(***************************************************************************)
(* Model of the web-console terminal server: the frame codec               *)
(* (Message.Marshal / UnmarshalMessage / UnmarshalResizeData), the PTY     *)
(* handle (PTY.Read/Write/Resize/SendSignal/Close) and the per-connection  *)
(* Session with its three goroutines: the reader loop (handleConnection),  *)
(* the PTY pump (readFromPTY) and the heartbeat; the server shutdown of the *)
(* embedding application; and the client hook useTerminal (its frame       *)
(* encoder and its connect / disconnect / reconnect logic).                *)
(*                                                                         *)
(* Byte strings are sequences of 0..255.  uint16 arithmetic wraps modulo   *)
(* 2^16 exactly where the Go code computes in uint16.                      *)
(***************************************************************************)
EXTENDS Integers, Sequences, FiniteSets, TLC

\* ---------------------------------------------------------------- protocol
MsgTypeData == 1
MsgTypeResize == 2
MsgTypeControl == 3
MsgTypeError == 4
MsgTypeHeartbeat == 5
MsgTypeClose == 6

\* 0xFFFF, the largest payload Marshal accepts
MaxPayload == 65535

\* 2^16, the modulus of uint16 arithmetic
Uint16Mod == 65536

\* binary.LittleEndian.Uint16(b[lo..lo+1]), 1-based index lo
Uint16LE(b, lo) == b[lo] + 256 * b[lo + 1]

\* binary.LittleEndian.PutUint16 of uint16(v)
PutUint16LE(v) == << (v % Uint16Mod) % 256, (v % Uint16Mod) \div 256 >>

\* Marshal with the test len(m.Data) >= 0xFFFF: a payload of exactly 65535
\* bytes is refused
MarshalOffByOne(type, data) ==
  IF Len(data) >= MaxPayload
  THEN [err |-> "message data too large", bytes |-> << >>]
  ELSE [err |-> "nil", bytes |-> << type >> \o PutUint16LE(Len(data)) \o data]

\* Message.Marshal: header [type][len LE] followed by the payload
Marshal(type, data) ==
  IF Len(data) > MaxPayload
  THEN [err |-> "message data too large", bytes |-> << >>]
  ELSE [err |-> "nil", bytes |-> << type >> \o PutUint16LE(Len(data)) \o data]

\* the upper slice bound 3+dataLen, computed in uint16 as the code does
SliceHigh(dataLen) == (3 + dataLen) % Uint16Mod

\* UnmarshalMessage with the test len(data) < 2: a 2-byte input passes the
\* test and the read of the length field data[1:3] is out of range
UnmarshalMessageShortHeader(data) ==
  IF Len(data) < 2
  THEN [err |-> "message too short", type |-> 0, data |-> << >>]
  ELSE IF Len(data) = 2
  THEN [err |-> "panic", type |-> 0, data |-> << >>]
  ELSE LET dataLen == Uint16LE(data, 2)
           high == SliceHigh(dataLen)
       IN IF Len(data) < high
          THEN [err |-> "incomplete message", type |-> 0, data |-> << >>]
          ELSE IF high < 3
               THEN [err |-> "panic", type |-> 0, data |-> << >>]
               ELSE [err |-> "nil", type |-> data[1],
                     data |-> SubSeq(data, 4, high)]

\* UnmarshalMessage.  err is "nil", one of the two error texts, or "panic"
\* when the slice expression data[3:3+dataLen] has its bounds out of range.
UnmarshalMessage(data) ==
  IF Len(data) < 3
  THEN [err |-> "message too short", type |-> 0, data |-> << >>]
  ELSE LET dataLen == Uint16LE(data, 2)
           high == SliceHigh(dataLen)
       IN IF Len(data) < high
          THEN [err |-> "incomplete message", type |-> 0, data |-> << >>]
          ELSE IF high < 3
               THEN [err |-> "panic", type |-> 0, data |-> << >>]
               ELSE [err |-> "nil", type |-> data[1],
                     data |-> SubSeq(data, 4, high)]

\* encodeMessage of the client hook: DataView.setUint8 and setUint16 store
\* their argument modulo 2^8 and 2^16; the function has no failure path
ClientEncodeMessage(type, data) ==
  << type % 256 >> \o PutUint16LE(Len(data)) \o data

\* ResizeData.Marshal
ResizeMarshal(cols, rows) == PutUint16LE(cols) \o PutUint16LE(rows)

\* UnmarshalResizeData reading the two fields with binary.BigEndian
UnmarshalResizeDataBigEndian(data) ==
  IF Len(data) < 4
  THEN [err |-> "invalid resize data", cols |-> 0, rows |-> 0]
  ELSE [err |-> "nil", cols |-> data[2] + 256 * data[1],
        rows |-> data[4] + 256 * data[3]]

\* UnmarshalResizeData
UnmarshalResizeData(data) ==
  IF Len(data) < 4
  THEN [err |-> "invalid resize data", cols |-> 0, rows |-> 0]
  ELSE [err |-> "nil", cols |-> Uint16LE(data, 1), rows |-> Uint16LE(data, 3)]


\* ------------------------------------------------------------------ bounds
\* events a run takes from outside the session: frames received by the
\* reader loop, successful reads of the PTY master, heartbeat ticks
MaxEvents == 4

\* --------------------------------------------------------------- the inputs
\* the one connection the handler accepts in a run
Sid == "s1"

\* syscall.SIGTERM
SIGTERM == 15

\* transport messages the peer may send (whole websocket messages)
PeerMessages ==
  { << 1, 1, 0, 97 >>,                \* DATA "a"
    << 1, 2, 0, 98, 99 >>,            \* DATA "bc"
    << 2, 4, 0, 132, 0, 50, 0 >>,     \* RESIZE cols=132 rows=50
    << 2, 4, 0, 0, 0, 24, 0 >>,       \* RESIZE cols=0 rows=24
    << 2, 3, 0, 1, 0, 2 >>,           \* RESIZE with a 3-byte payload
    << 3, 1, 0, 2 >>,                 \* CONTROL SIGINT
    << 3, 0, 0 >>,                    \* CONTROL with an empty payload
    << 5, 0, 0 >>,                    \* HEARTBEAT
    << 6, 0, 0 >>,                    \* CLOSE
    << 127, 0, 0 >>,                  \* unknown type
    << 1, 1 >>,                       \* shorter than the header
    << 1, 5, 0, 97 >>,                \* declares 5 payload bytes, carries 1
    << 1, 253, 255 >> }               \* declares 65533 payload bytes, carries 0

\* the message types conn.ReadMessage returns to its caller
\* (websocket.TextMessage, websocket.BinaryMessage)
MessageKinds == { "text", "binary" }

\* the errors conn.ReadMessage returns: the peer closed the connection, or
\* the read deadline passed with no pong to move it
ReadErrors == { "close", "timeout" }

\* the read deadline handleConnection and the pong handler arm: 60 s, in
\* periods of the 30 s ticker
ReadDeadline == 2

\* how many ticker periods a run with a clock lasts
MaxTime == 2

\* the transport of a run: the kinds of message and the read errors
\* conn.ReadMessage may return, and its read deadline.  A run with clock
\* follows the time: now is the time in ticker periods, deadline the read
\* deadline set on the connection, readAt the time of the last successful
\* read, and a read times out only once the deadline is reached.  A run
\* without clock leaves the time open: now stays 0 and a read may time out
\* at any moment.
Link(kinds, errs, clock) ==
  [kinds |-> kinds, errs |-> errs, clock |-> clock, now |-> 0,
   deadline |-> 0, readAt |-> 0]

\* what one read of the PTY master may return (n > 0 bytes)
PtyChunks == { << 104 >>, << 105, 10 >> }

VARIABLES
  sessions,    \* Handler.sessions, the registry
  rpc,         \* position of the reader goroutine (handleConnection)
  ppc,         \* position of the pump goroutine (readFromPTY)
  hpc,         \* position of the heartbeat goroutine
  cancelled,   \* s.ctx is done (s.cancel was called)
  closeOnce,   \* s.closeOnce has fired
  spty,        \* s.pty: "nil" or "ptr"
  p,           \* the PTY struct s.pty points to
  child,       \* the child process of the PTY
  muReaders,   \* holders of p.mu.RLock
  writeMu,     \* holder of s.writeMu
  connClosed,  \* s.conn.Close() was called
  wire,        \* the calls of conn.WriteMessage and their outcome, in order
  ptyIn,       \* bytes written to the PTY master, in order
  ptyReads,    \* chunks the pump read from the PTY master, in order
  buffer,      \* buffer[:n] of the pump's last read
  pendingErr,  \* the error text a pending sendError carries
  nRecv,       \* frames received so far
  nTicks,      \* ticks delivered so far
  panicking,   \* the reader goroutine panicked; its deferred calls run
  crashed,     \* the process died of the unrecovered panic
  lastMsg,     \* the transport message the reader is handling
  dataRecv,    \* concatenated payloads of the DATA frames received
  closeRecv,   \* a CLOSE frame was received while the PTY was live
  peer,        \* the transport messages the peer of this run may send
  codec,       \* a codec call in progress: its inputs and results
  lastRead,    \* what the reader's last conn.ReadMessage returned
  shutdown,    \* http.Server.Shutdown of the embedding application returned
  hook,        \* the client hook useTerminal: its refs, sockets and timers
  link,        \* the transport of this run: the kinds of message and the
               \* read errors conn.ReadMessage may return, its clock and
               \* its read deadline
  call         \* the last call made on the PTY handle by a caller other
               \* than a session: the operation and the error it returned

vars == << sessions, rpc, ppc, hpc, cancelled, closeOnce, spty, p, child,
           muReaders, writeMu, connClosed, wire, ptyIn, ptyReads, buffer,
           pendingErr, nRecv, nTicks, panicking, crashed, lastMsg, dataRecv,
           closeRecv, peer, codec, lastRead, shutdown, hook, link, call >>

\* events taken from outside so far
Events == nRecv + Len(ptyReads) + nTicks

\* the zero PTY struct, before NewPTY
NoPTY == [closed |-> FALSE, masterOpen |-> FALSE, cancelFired |-> FALSE,
          cols |-> 0, rows |-> 0, closeLog |-> << >>]

\* NewPTY(cols, rows) on success
NewPTY(cols, rows) == [closed |-> FALSE, masterOpen |-> TRUE,
                       cancelFired |-> FALSE, cols |-> cols, rows |-> rows,
                       closeLog |-> << >>]

\* no call was made on the handle yet; n counts the calls
NoCall == [op |-> "none", err |-> "nil", n |-> 0]

NoChild == [alive |-> FALSE, sigs |-> << >>]
NewChild == [alive |-> TRUE, sigs |-> << >>]

\* no codec call in progress.  A payload is kept as (n, pat): n bytes that
\* repeat the pattern pat; of a decoded frame the error, the type and the
\* payload length are kept, and in same whether the payload is the encoded
\* one.  cols and rows are the ResizeData handed to ResizeData.Marshal and rd
\* is the result of UnmarshalResizeData.  lenField is the length field of a
\* frame the client encoder produced.
NoCodec == [pc |-> "none", type |-> 0, n |-> 0, pat |-> << 0 >>,
            bytes |-> << >>, encErr |-> "nil", encLen |-> 0,
            dec |-> [err |-> "nil", type |-> 0, len |-> 0], same |-> FALSE,
            cols |-> 0, rows |-> 0,
            rd |-> [err |-> "nil", cols |-> 0, rows |-> 0], lenField |-> 0]

\* the client hook after its first render: no socket, no timer.
\* ws is wsRef.current (0 is null, else the index of a socket in socks),
\* socks the state of every WebSocket created ("connecting", "open",
\* "closed", or "detached" once cleanup removed its handlers and closed it),
\* count reconnectCountRef, manual isManualDisconnectRef, timerRef
\* reconnectTimeoutRef (0 is null, else an index in timers), timers every
\* setTimeout made, isConnecting the React state.  Kept besides, to state
\* what the hook does: calls, the calls the component made; disconnected,
\* whether disconnect() was called with no connect() or reconnect() called
\* since; autoStarted, the automatic reconnects started since the last
\* successful open or call of connect() or reconnect(); lateAuto and
\* lateOpen, whether an automatic reconnect was started, or a socket
\* created, while disconnected.
NoHook == [ws |-> 0, socks |-> << >>, count |-> 0, manual |-> FALSE,
           timerRef |-> 0, timers |-> << >>, isConnecting |-> FALSE,
           calls |-> 0, disconnected |-> FALSE, autoStarted |-> 0,
           lateAuto |-> FALSE, lateOpen |-> FALSE]

\* the state after construction, before any connection is accepted
SessionInit ==
  /\ sessions = {}
  /\ rpc = "idle"
  /\ ppc = "idle"
  /\ hpc = "idle"
  /\ cancelled = FALSE
  /\ closeOnce = FALSE
  /\ spty = "nil"
  /\ p = NoPTY
  /\ child = NoChild
  /\ muReaders = 0
  /\ writeMu = "none"
  /\ connClosed = FALSE
  /\ wire = << >>
  /\ ptyIn = << >>
  /\ ptyReads = << >>
  /\ buffer = << >>
  /\ pendingErr = "nil"
  /\ nRecv = 0
  /\ nTicks = 0
  /\ panicking = FALSE
  /\ crashed = FALSE
  /\ lastMsg = << >>
  /\ dataRecv = << >>
  /\ closeRecv = FALSE
  /\ lastRead = "none"
  /\ shutdown = FALSE
  /\ hook = NoHook
  /\ call = NoCall

Init ==
  /\ SessionInit
  /\ peer = PeerMessages
  /\ codec = NoCodec
  /\ link = Link(MessageKinds, ReadErrors, FALSE)


\* ------------------------------------------------------------- PTY handle
ErrClosedPipe == "io: read/write on closed pipe"
ErrIO == "input/output error"

\* PTY.Read: the error it returns; err is what the read on the master
\* returns
PTYRead(pp, err) ==
  IF pp.closed THEN "EOF" ELSE err

\* PTY.Write: the error it returns; ok is whether the write on the master
\* succeeds
PTYWrite(pp, ok) ==
  IF pp.closed THEN ErrClosedPipe ELSE IF ok THEN "nil" ELSE ErrIO

\* PTY.Resize: the error it returns; ok is whether the ioctl succeeds
PTYResize(pp, ok) ==
  IF pp.closed THEN ErrClosedPipe ELSE IF ok THEN "nil" ELSE ErrIO

\* PTY.SendSignal: the error it returns (cmd.Process is set by NewPTY)
PTYSendSignal(pp) ==
  IF pp.closed THEN ErrClosedPipe ELSE "nil"

\* PTY.Close, the body run under p.mu.Lock: the new PTY struct
PTYClose(pp) ==
  IF pp.closed THEN pp
  ELSE [pp EXCEPT !.closed = TRUE, !.cancelFired = TRUE,
                  !.masterOpen = FALSE,
                  !.closeLog = << "cancel", "master", "signal" >>]

\* PTY.Close: what it does to the child (Process.Signal(SIGTERM))
PTYCloseChild(pp, ch) ==
  IF pp.closed THEN ch ELSE [ch EXCEPT !.sigs = Append(ch.sigs, SIGTERM)]

\* ------------------------------------------------------------ reader loop
\* Handler.ServeHTTP after a successful upgrade: createSession, Store, go
\* (a server that was shut down accepts no connection)
ServeHTTP ==
  /\ ~crashed
  /\ ~shutdown
  /\ rpc = "idle"
  /\ sessions' = sessions \cup {Sid}
  /\ rpc' = "start"
  /\ UNCHANGED << ppc, hpc, cancelled, closeOnce, spty, p, child, muReaders,
                  writeMu, connClosed, wire, ptyIn, ptyReads, buffer,
                  pendingErr, nRecv, nTicks, panicking, crashed, lastMsg,
                  dataRecv, closeRecv, peer, codec,
                  lastRead, shutdown, hook,
                  link, call >>

\* handleConnection up to the loop: pong handler, read deadline, ticker,
\* go s.heartbeat
HandleConnectionStart ==
  /\ ~crashed
  /\ rpc = "start"
  /\ rpc' = "select"
  /\ hpc' = "select"
  /\ link' = [link EXCEPT !.deadline = link.now + ReadDeadline]
  /\ UNCHANGED << sessions, ppc, cancelled, closeOnce, spty, p, child,
                  muReaders, writeMu, connClosed, wire, ptyIn, ptyReads,
                  buffer, pendingErr, nRecv, nTicks, panicking, crashed,
                  lastMsg, dataRecv, closeRecv, peer, codec,
                  lastRead, shutdown, hook, call >>

\* the select at the head of the reader loop
ReaderSelect ==
  /\ ~crashed
  /\ rpc = "select"
  /\ rpc' = IF cancelled THEN "cleanup" ELSE "read"
  /\ lastMsg' = << >>
  /\ lastRead' = "none"
  /\ UNCHANGED << sessions, ppc, hpc, cancelled, closeOnce, spty, p, child,
                  muReaders, writeMu, connClosed, wire, ptyIn, ptyReads,
                  buffer, pendingErr, nRecv, nTicks, panicking, crashed,
                  dataRecv, closeRecv, peer, codec, shutdown, hook,
                  link, call >>

\* the return of a handler: nil goes back to the loop, an error to sendError
Return(err) ==
  /\ rpc' = IF err = "nil" THEN "select" ELSE "errLock"
  /\ pendingErr' = err
  /\ panicking' = panicking

\* handleData without its test s.pty == nil: every DATA frame creates a PTY
\* and starts a pump
HandleDataAlwaysCreates(data) ==
  \E created \in BOOLEAN, ok \in BOOLEAN :
    IF ~created
    THEN /\ Return("failed to create PTY")
         /\ UNCHANGED << spty, p, child, ppc, ptyIn, cancelled >>
    ELSE LET np == NewPTY(80, 24)
             err == PTYWrite(np, ok)
         IN /\ spty' = "ptr"
            /\ p' = np
            /\ child' = NewChild
            /\ ppc' = "select"
            /\ ptyIn' = IF err = "nil" THEN ptyIn \o data ELSE ptyIn
            /\ Return(err)
            /\ UNCHANGED cancelled

\* Session.handleData
HandleData(data) ==
  \E created \in BOOLEAN, ok \in BOOLEAN :
    IF spty = "nil" /\ ~created
    THEN /\ Return("failed to create PTY")
         /\ UNCHANGED << spty, p, child, ppc, ptyIn, cancelled >>
    ELSE LET fresh == spty = "nil"
             np == IF fresh THEN NewPTY(80, 24) ELSE p
             err == PTYWrite(np, ok)
         IN /\ spty' = "ptr"
            /\ p' = np
            /\ child' = IF fresh THEN NewChild ELSE child
            /\ ppc' = IF fresh THEN "select" ELSE ppc
            /\ ptyIn' = IF err = "nil" THEN ptyIn \o data ELSE ptyIn
            /\ Return(err)
            /\ UNCHANGED cancelled

\* Session.handleResize
HandleResize(data) ==
  \E created \in BOOLEAN, ok \in BOOLEAN :
    IF spty = "nil" /\ ~created
    THEN /\ Return("failed to create PTY")
         /\ UNCHANGED << spty, p, child, ppc, ptyIn, cancelled >>
    ELSE LET fresh == spty = "nil"
             np == IF fresh THEN NewPTY(80, 24) ELSE p
             rd == UnmarshalResizeData(data)
             err == IF rd.err # "nil"
                    THEN "failed to unmarshal resize data"
                    ELSE PTYResize(np, ok)
         IN /\ spty' = "ptr"
            /\ p' = IF err = "nil"
                    THEN [np EXCEPT !.cols = rd.cols, !.rows = rd.rows]
                    ELSE np
            /\ child' = IF fresh THEN NewChild ELSE child
            /\ ppc' = IF fresh THEN "select" ELSE ppc
            /\ Return(err)
            /\ UNCHANGED << ptyIn, cancelled >>

\* handleControl creating the PTY when there is none, as handleData does
HandleControlAutoCreate(data) ==
  LET fresh == spty = "nil"
      np == IF fresh THEN NewPTY(80, 24) ELSE p
      ch == IF fresh THEN NewChild ELSE child
      err == IF Len(data) < 1 THEN "invalid control data"
             ELSE PTYSendSignal(np)
  IN /\ spty' = "ptr"
     /\ p' = np
     /\ child' = IF err = "nil"
                 THEN [ch EXCEPT !.sigs = Append(ch.sigs, data[1])]
                 ELSE ch
     /\ ppc' = IF fresh THEN "select" ELSE ppc
     /\ Return(err)
     /\ UNCHANGED << ptyIn, cancelled >>

\* Session.handleControl
HandleControl(data) ==
  LET err == IF spty = "nil" THEN "no PTY available"
             ELSE IF Len(data) < 1 THEN "invalid control data"
             ELSE PTYSendSignal(p)
  IN /\ child' = IF err = "nil"
                 THEN [child EXCEPT !.sigs = Append(child.sigs, data[1])]
                 ELSE child
     /\ Return(err)
     /\ UNCHANGED << spty, p, ppc, ptyIn, cancelled >>

\* Session.handleMessage
HandleMessage(data) ==
  LET msg == UnmarshalMessage(data) IN
  CASE msg.err = "panic" ->
         /\ panicking' = TRUE
         /\ rpc' = "cleanup"
         /\ UNCHANGED << spty, p, child, ppc, ptyIn, cancelled, pendingErr >>
    [] msg.err \notin {"nil", "panic"} ->
         /\ Return("failed to unmarshal message")
         /\ UNCHANGED << spty, p, child, ppc, ptyIn, cancelled >>
    [] msg.err = "nil" /\ msg.type = MsgTypeData -> HandleData(msg.data)
    [] msg.err = "nil" /\ msg.type = MsgTypeResize -> HandleResize(msg.data)
    [] msg.err = "nil" /\ msg.type = MsgTypeControl -> HandleControl(msg.data)
    [] msg.err = "nil" /\ msg.type = MsgTypeHeartbeat ->
         /\ Return("nil")
         /\ UNCHANGED << spty, p, child, ppc, ptyIn, cancelled >>
    [] msg.err = "nil" /\ msg.type = MsgTypeClose ->
         /\ cancelled' = TRUE
         /\ Return("nil")
         /\ UNCHANGED << spty, p, child, ppc, ptyIn >>
    [] OTHER ->
         /\ Return("unknown message type")
         /\ UNCHANGED << spty, p, child, ppc, ptyIn, cancelled >>

\* conn.ReadMessage returns a message; its type is discarded and the loop
\* body handles the data.  Nothing here sets the read deadline.
ReadMessage ==
  /\ ~crashed
  /\ rpc = "read"
  /\ Events < MaxEvents
  /\ \E data \in peer, kind \in link.kinds :
       LET msg == UnmarshalMessage(data) IN
       /\ HandleMessage(data)
       /\ lastMsg' = data
       /\ lastRead' = kind
       /\ dataRecv' = IF msg.err = "nil" /\ msg.type = MsgTypeData
                      THEN dataRecv \o msg.data ELSE dataRecv
       /\ closeRecv' = (closeRecv \/ (msg.err = "nil" /\ msg.type = MsgTypeClose
                                      /\ spty = "ptr" /\ ~p.closed))
  /\ nRecv' = nRecv + 1
  /\ link' = [link EXCEPT !.readAt = link.now]
  /\ UNCHANGED << sessions, hpc, closeOnce, muReaders, writeMu, connClosed,
                  wire, ptyReads, buffer, nTicks, crashed, peer, codec,
                  shutdown, hook, call >>

\* conn.ReadMessage returns an error (peer closed, read deadline, I/O error)
ReadError ==
  /\ ~crashed
  /\ rpc = "read"
  /\ rpc' = "cleanup"
  /\ \E e \in link.errs :
       /\ (e = "timeout" /\ link.clock) => link.now >= link.deadline
       /\ lastRead' = e
  /\ UNCHANGED << sessions, ppc, hpc, cancelled, closeOnce, spty, p, child,
                  muReaders, writeMu, connClosed, wire, ptyIn, ptyReads,
                  buffer, pendingErr, nRecv, nTicks, panicking, crashed,
                  lastMsg, dataRecv, closeRecv, peer, codec, shutdown, hook,
                  link, call >>

\* a message handed to conn.WriteMessage
\* (the text of an ERROR frame is not kept: bytes is empty for ERROR);
\* ok is whether the write succeeded
BinaryMsg(type, bytes, ok) ==
  [kind |-> "binary", type |-> type, bytes |-> bytes, ok |-> ok]
PingMsg(ok) == [kind |-> "ping", type |-> 0, bytes |-> << >>, ok |-> ok]

\* sendError in the reader: s.writeMu.Lock()
ReaderErrLock ==
  /\ ~crashed
  /\ rpc = "errLock"
  /\ writeMu = "none"
  /\ writeMu' = "reader"
  /\ rpc' = "errWrite"
  /\ UNCHANGED << sessions, ppc, hpc, cancelled, closeOnce, spty, p, child,
                  muReaders, connClosed, wire, ptyIn, ptyReads, buffer,
                  pendingErr, nRecv, nTicks, panicking, crashed, lastMsg,
                  dataRecv, closeRecv, peer, codec,
                  lastRead, shutdown, hook,
                  link, call >>

\* sendError in the reader: WriteMessage, cancel on failure, Unlock
ReaderErrWrite ==
  /\ ~crashed
  /\ rpc = "errWrite"
  /\ \E ok \in (IF connClosed THEN {FALSE} ELSE BOOLEAN) :
       /\ wire' = Append(wire, BinaryMsg(MsgTypeError, << >>, ok))
       /\ cancelled' = (cancelled \/ ~ok)
  /\ writeMu' = "none"
  /\ pendingErr' = "nil"
  /\ rpc' = "select"
  /\ UNCHANGED << sessions, ppc, hpc, closeOnce, spty, p, child, muReaders,
                  connClosed, ptyIn, ptyReads, buffer, nRecv, nTicks,
                  panicking, crashed, lastMsg, dataRecv, closeRecv, peer, codec,
                  lastRead, shutdown, hook,
                  link, call >>

\* ---------------------------------------------------------------- cleanup
\* cleanup with s.conn.Close() moved before the PTY close: after s.cancel()
\* the body goes to the transport at once
CleanupBeginTransportFirst ==
  /\ ~crashed
  /\ rpc = "cleanup"
  /\ closeOnce' = TRUE
  /\ cancelled' = TRUE
  /\ rpc' = "connClose"
  /\ UNCHANGED << sessions, ppc, hpc, spty, p, child, muReaders, writeMu,
                  connClosed, wire, ptyIn, ptyReads, buffer, pendingErr,
                  nRecv, nTicks, panicking, crashed, lastMsg, dataRecv,
                  closeRecv, peer, codec, lastRead, shutdown, hook, link, call >>

\* Session.cleanup: closeOnce.Do runs the body the first time only, and the
\* body starts with s.cancel(); a later call returns at once and
\* handleConnection is over
CleanupBegin ==
  /\ ~crashed
  /\ rpc = "cleanup"
  /\ closeOnce' = TRUE
  /\ IF closeOnce
     THEN /\ rpc' = "done"
          /\ crashed' = panicking
          /\ cancelled' = cancelled
     ELSE /\ rpc' = IF spty # "nil" THEN "ptyClose" ELSE "connClose"
          /\ crashed' = crashed
          /\ cancelled' = TRUE
  /\ UNCHANGED << sessions, ppc, hpc, spty, p, child, muReaders, writeMu,
                  connClosed, wire, ptyIn, ptyReads, buffer, pendingErr,
                  nRecv, nTicks, panicking, lastMsg, dataRecv,
                  closeRecv, peer, codec,
                  lastRead, shutdown, hook,
                  link, call >>

\* Session.cleanup: s.pty.Close(), which needs p.mu.Lock()
CleanupPtyClose ==
  /\ ~crashed
  /\ rpc = "ptyClose"
  /\ muReaders = 0
  /\ p' = PTYClose(p)
  /\ child' = PTYCloseChild(p, child)
  /\ rpc' = "connClose"
  /\ UNCHANGED << sessions, ppc, hpc, cancelled, closeOnce, spty, muReaders,
                  writeMu, connClosed, wire, ptyIn, ptyReads, buffer,
                  pendingErr, nRecv, nTicks, panicking, crashed, lastMsg,
                  dataRecv, closeRecv, peer, codec,
                  lastRead, shutdown, hook,
                  link, call >>

\* cleanup called at the exit of the loop body instead of deferred: after
\* s.conn.Close() the reader is back at the head of its loop
CleanupConnCloseInLoop ==
  /\ ~crashed
  /\ rpc = "connClose"
  /\ connClosed' = TRUE
  /\ rpc' = "select"
  /\ UNCHANGED << sessions, ppc, hpc, cancelled, closeOnce, spty, p, child,
                  muReaders, writeMu, wire, ptyIn, ptyReads, buffer,
                  pendingErr, nRecv, nTicks, panicking, crashed, lastMsg,
                  dataRecv, closeRecv, peer, codec, lastRead, shutdown, hook,
                  link, call >>

\* Session.cleanup: s.conn.Close(); handleConnection returns, and a
\* panicking goroutine then takes the process down
CleanupConnClose ==
  /\ ~crashed
  /\ rpc = "connClose"
  /\ connClosed' = TRUE
  /\ rpc' = "done"
  /\ crashed' = panicking
  /\ UNCHANGED << sessions, ppc, hpc, cancelled, closeOnce, spty, p, child,
                  muReaders, writeMu, wire, ptyIn, ptyReads, buffer,
                  pendingErr, nRecv, nTicks, panicking, lastMsg, dataRecv,
                  closeRecv, peer, codec,
                  lastRead, shutdown, hook,
                  link, call >>


\* --------------------------------------------------------------- PTY pump
\* readFromPTY: the select at the head of the loop
PumpSelect ==
  /\ ~crashed
  /\ ppc = "select"
  /\ ppc' = IF cancelled THEN "done" ELSE "callRead"
  /\ UNCHANGED << sessions, rpc, hpc, cancelled, closeOnce, spty, p, child,
                  muReaders, writeMu, connClosed, wire, ptyIn, ptyReads,
                  buffer, pendingErr, nRecv, nTicks, panicking, crashed,
                  lastMsg, dataRecv, closeRecv, peer, codec,
                  lastRead, shutdown, hook,
                  link, call >>

\* PTY.Read: RLock; a closed handle returns io.EOF at once and the pump
\* returns; otherwise the read on the master blocks with the lock held
PumpReadBegin ==
  /\ ~crashed
  /\ ppc = "callRead"
  /\ IF p.closed
     THEN ppc' = "done" /\ muReaders' = muReaders
     ELSE ppc' = "reading" /\ muReaders' = muReaders + 1
  /\ UNCHANGED << sessions, rpc, hpc, cancelled, closeOnce, spty, p, child,
                  writeMu, connClosed, wire, ptyIn, ptyReads, buffer,
                  pendingErr, nRecv, nTicks, panicking, crashed, lastMsg,
                  dataRecv, closeRecv, peer, codec,
                  lastRead, shutdown, hook,
                  link, call >>

\* readFromPTY with the test n > 1: a read of a single byte is not forwarded
PumpForwardsOffByOne(n) == n > 1

\* the n > 0 test that guards sendData in readFromPTY
PumpForwards(n) == n > 0

\* the blocked read returns n bytes of child output; RUnlock
PtyReadData ==
  /\ ~crashed
  /\ ppc = "reading"
  /\ child.alive
  /\ Events < MaxEvents
  /\ \E chunk \in PtyChunks :
       /\ ptyReads' = Append(ptyReads, chunk)
       /\ buffer' = chunk
       /\ ppc' = IF PumpForwards(Len(chunk)) THEN "send" ELSE "select"
  /\ muReaders' = muReaders - 1
  /\ UNCHANGED << sessions, rpc, hpc, cancelled, closeOnce, spty, p, child,
                  writeMu, connClosed, wire, ptyIn, pendingErr, nRecv,
                  nTicks, panicking, crashed, lastMsg, dataRecv, closeRecv, peer, codec,
                  lastRead, shutdown, hook,
                  link, call >>

\* the blocked read fails after the child went away: io.EOF ends the pump
\* silently, any other error is reported with sendError first; RUnlock
PtyReadFail ==
  /\ ~crashed
  /\ ppc = "reading"
  /\ ~child.alive
  /\ \E e \in {"EOF", ErrIO} :
       IF e = "EOF"
       THEN ppc' = "done" /\ pendingErr' = pendingErr
       ELSE ppc' = "errLock" /\ pendingErr' = pendingErr
  /\ muReaders' = muReaders - 1
  /\ UNCHANGED << sessions, rpc, hpc, cancelled, closeOnce, spty, p, child,
                  writeMu, connClosed, wire, ptyIn, ptyReads, buffer, nRecv,
                  nTicks, panicking, crashed, lastMsg, dataRecv, closeRecv, peer, codec,
                  lastRead, shutdown, hook,
                  link, call >>

\* sendData / sendError in the pump: Marshal, then s.writeMu.Lock()
PumpLock ==
  /\ ~crashed
  /\ ppc \in {"send", "errLock"}
  /\ IF ppc = "send" /\ Marshal(MsgTypeData, buffer).err # "nil"
     THEN ppc' = "select" /\ writeMu' = writeMu
     ELSE /\ writeMu = "none"
          /\ writeMu' = "pump"
          /\ ppc' = IF ppc = "send" THEN "write" ELSE "errWrite"
  /\ UNCHANGED << sessions, rpc, hpc, cancelled, closeOnce, spty, p, child,
                  muReaders, connClosed, wire, ptyIn, ptyReads, buffer,
                  pendingErr, nRecv, nTicks, panicking, crashed, lastMsg,
                  dataRecv, closeRecv, peer, codec,
                  lastRead, shutdown, hook,
                  link, call >>

\* sendMessage without the s.cancel() of its failure branch
PumpWriteNoCancel ==
  /\ ~crashed
  /\ ppc \in {"write", "errWrite"}
  /\ \E ok \in (IF connClosed THEN {FALSE} ELSE BOOLEAN) :
       LET m == IF ppc = "write"
                THEN BinaryMsg(MsgTypeData,
                               Marshal(MsgTypeData, buffer).bytes, ok)
                ELSE BinaryMsg(MsgTypeError, << >>, ok)
       IN wire' = Append(wire, m)
  /\ writeMu' = "none"
  /\ ppc' = IF ppc = "write" THEN "select" ELSE "done"
  /\ UNCHANGED << sessions, rpc, hpc, cancelled, closeOnce, spty, p, child,
                  muReaders, connClosed, ptyIn, ptyReads, buffer, pendingErr,
                  nRecv, nTicks, panicking, crashed, lastMsg, dataRecv,
                  closeRecv, peer, codec, lastRead, shutdown, hook, link, call >>

\* sendMessage in the pump: WriteMessage, cancel on failure, Unlock
PumpWrite ==
  /\ ~crashed
  /\ ppc \in {"write", "errWrite"}
  /\ \E ok \in (IF connClosed THEN {FALSE} ELSE BOOLEAN) :
       LET m == IF ppc = "write"
                THEN BinaryMsg(MsgTypeData,
                               Marshal(MsgTypeData, buffer).bytes, ok)
                ELSE BinaryMsg(MsgTypeError, << >>, ok)
       IN /\ wire' = Append(wire, m)
          /\ cancelled' = (cancelled \/ ~ok)
  /\ writeMu' = "none"
  /\ ppc' = IF ppc = "write" THEN "select" ELSE "done"
  /\ UNCHANGED << sessions, rpc, hpc, closeOnce, spty, p, child, muReaders,
                  connClosed, ptyIn, ptyReads, buffer, pendingErr, nRecv,
                  nTicks, panicking, crashed, lastMsg, dataRecv, closeRecv, peer, codec,
                  lastRead, shutdown, hook,
                  link, call >>

\* -------------------------------------------------------------- heartbeat
\* heartbeat: the select takes the ctx.Done case
HeartbeatDone ==
  /\ ~crashed
  /\ hpc = "select"
  /\ cancelled
  /\ hpc' = "done"
  /\ UNCHANGED << sessions, rpc, ppc, cancelled, closeOnce, spty, p, child,
                  muReaders, writeMu, connClosed, wire, ptyIn, ptyReads,
                  buffer, pendingErr, nRecv, nTicks, panicking, crashed,
                  lastMsg, dataRecv, closeRecv, peer, codec,
                  lastRead, shutdown, hook,
                  link, call >>

\* heartbeat: the select takes the ticker case
HeartbeatTick ==
  /\ ~crashed
  /\ hpc = "select"
  /\ Events < MaxEvents
  /\ nTicks' = nTicks + 1
  /\ hpc' = "lock"
  /\ UNCHANGED << sessions, rpc, ppc, cancelled, closeOnce, spty, p, child,
                  muReaders, writeMu, connClosed, wire, ptyIn, ptyReads,
                  buffer, pendingErr, nRecv, panicking, crashed, lastMsg,
                  dataRecv, closeRecv, peer, codec,
                  lastRead, shutdown, hook,
                  link, call >>

\* heartbeat writing its ping without s.writeMu: it does not wait for the
\* holder of the lock
HeartbeatLockNoWait ==
  /\ ~crashed
  /\ hpc = "lock"
  /\ writeMu' = "hb"
  /\ hpc' = "write"
  /\ UNCHANGED << sessions, rpc, ppc, cancelled, closeOnce, spty, p, child,
                  muReaders, connClosed, wire, ptyIn, ptyReads, buffer,
                  pendingErr, nRecv, nTicks, panicking, crashed, lastMsg,
                  dataRecv, closeRecv, peer, codec, lastRead, shutdown, hook,
                  link, call >>

\* heartbeat: s.writeMu.Lock()
HeartbeatLock ==
  /\ ~crashed
  /\ hpc = "lock"
  /\ writeMu = "none"
  /\ writeMu' = "hb"
  /\ hpc' = "write"
  /\ UNCHANGED << sessions, rpc, ppc, cancelled, closeOnce, spty, p, child,
                  muReaders, connClosed, wire, ptyIn, ptyReads, buffer,
                  pendingErr, nRecv, nTicks, panicking, crashed, lastMsg,
                  dataRecv, closeRecv, peer, codec,
                  lastRead, shutdown, hook,
                  link, call >>

\* heartbeat: WriteMessage(PingMessage); on failure Unlock, cancel, return
HeartbeatWrite ==
  /\ ~crashed
  /\ hpc = "write"
  /\ \E ok \in (IF connClosed THEN {FALSE} ELSE BOOLEAN) :
       /\ wire' = Append(wire, PingMsg(ok))
       /\ cancelled' = (cancelled \/ ~ok)
       /\ hpc' = IF ok THEN "select" ELSE "done"
  /\ writeMu' = "none"
  /\ UNCHANGED << sessions, rpc, ppc, closeOnce, spty, p, child, muReaders,
                  connClosed, ptyIn, ptyReads, buffer, pendingErr, nRecv,
                  nTicks, panicking, crashed, lastMsg, dataRecv, closeRecv, peer, codec,
                  lastRead, shutdown, hook,
                  link, call >>

\* ------------------------------------------------------------ environment
\* the child shell exits on its own
ChildExit ==
  /\ ~crashed
  /\ spty = "ptr"
  /\ child.alive
  /\ child' = [child EXCEPT !.alive = FALSE]
  /\ UNCHANGED << sessions, rpc, ppc, hpc, cancelled, closeOnce, spty, p,
                  muReaders, writeMu, connClosed, wire, ptyIn, ptyReads,
                  buffer, pendingErr, nRecv, nTicks, panicking, crashed,
                  lastMsg, dataRecv, closeRecv, peer, codec,
                  lastRead, shutdown, hook,
                  link, call >>

\* ------------------------------------------------------------ specification
\* the steps of the session's own goroutines
ReaderStep ==
  \/ HandleConnectionStart \/ ReaderSelect \/ ReaderErrLock
  \/ ReaderErrWrite \/ CleanupBegin \/ CleanupPtyClose \/ CleanupConnClose
PumpStep == PumpSelect \/ PumpReadBegin \/ PumpLock \/ PumpWrite
HeartbeatStep == HeartbeatDone \/ HeartbeatLock \/ HeartbeatWrite

Next ==
  \/ ServeHTTP
  \/ HandleConnectionStart
  \/ ReaderSelect
  \/ ReadMessage
  \/ ReadError
  \/ ReaderErrLock
  \/ ReaderErrWrite
  \/ CleanupBegin
  \/ CleanupPtyClose
  \/ CleanupConnClose
  \/ PumpSelect
  \/ PumpReadBegin
  \/ PtyReadData
  \/ PtyReadFail
  \/ PumpLock
  \/ PumpWrite
  \/ HeartbeatDone
  \/ HeartbeatTick
  \/ HeartbeatLock
  \/ HeartbeatWrite
  \/ ChildExit

Spec == Init /\ [][Next]_vars

\* The reader loop, the pump and the heartbeat against a peer that sends
\* only a DATA frame, a malformed RESIZE frame or a CLOSE frame, each as a
\* Binary message, over a transport whose reads end by the read deadline.
PumpPeerMessages ==
  { << 1, 1, 0, 97 >>, << 2, 3, 0, 1, 0, 2 >>, << 6, 0, 0 >> }

PumpInit ==
  /\ SessionInit
  /\ peer = PumpPeerMessages
  /\ codec = NoCodec
  /\ link = Link({"binary"}, {"timeout"}, FALSE)

PumpSpec == PumpInit /\ [][Next]_vars

\* The same against a peer that sends CONTROL frames (SIGINT, and one with
\* an empty payload) and a DATA frame.
ControlPeerMessages ==
  { << 3, 1, 0, 2 >>, << 3, 0, 0 >>, << 1, 1, 0, 97 >> }

ControlInit ==
  /\ SessionInit
  /\ peer = ControlPeerMessages
  /\ codec = NoCodec
  /\ link = Link({"binary"}, {"timeout"}, FALSE)

ControlSpec == ControlInit /\ [][Next]_vars

\* Fair scheduling of the three goroutines.  A blocked conn.ReadMessage is
\* also assumed to return (the read deadline bounds it).  Nothing is assumed
\* of the peer, of the child or of the PTY's output.
FairSpec ==
  /\ PumpInit /\ [][Next]_vars
  /\ WF_vars(ReaderStep)
  /\ WF_vars(PumpStep)
  /\ WF_vars(HeartbeatStep)
  /\ WF_vars(ReadMessage \/ ReadError)


\* ------------------------------------------------- the read deadline
\* a ticker period passes
TimePasses ==
  /\ ~crashed
  /\ link.clock
  /\ link.now < MaxTime
  /\ link' = [link EXCEPT !.now = link.now + 1]
  /\ UNCHANGED << sessions, rpc, ppc, hpc, cancelled, closeOnce, spty, p,
                  child, muReaders, writeMu, connClosed, wire, ptyIn,
                  ptyReads, buffer, pendingErr, nRecv, nTicks, panicking,
                  crashed, lastMsg, dataRecv, closeRecv, peer, codec,
                  lastRead, shutdown, hook, call >>

\* a pong arrives while the reader is in conn.ReadMessage: the pong handler
\* sets the read deadline and the read goes on
PongHandler ==
  /\ ~crashed
  /\ link.clock
  /\ rpc = "read"
  /\ link' = [link EXCEPT !.deadline = link.now + ReadDeadline]
  /\ UNCHANGED << sessions, rpc, ppc, hpc, cancelled, closeOnce, spty, p,
                  child, muReaders, writeMu, connClosed, wire, ptyIn,
                  ptyReads, buffer, pendingErr, nRecv, nTicks, panicking,
                  crashed, lastMsg, dataRecv, closeRecv, peer, codec,
                  lastRead, shutdown, hook, call >>

DeadlineNext == Next \/ TimePasses \/ PongHandler

\* The session over a transport with a clock, against a peer that sends
\* DATA frames and pongs.
DeadlinePeerMessages == { << 1, 1, 0, 97 >> }

DeadlineInit ==
  /\ SessionInit
  /\ peer = DeadlinePeerMessages
  /\ codec = NoCodec
  /\ link = Link({"binary"}, {"timeout"}, TRUE)

DeadlineSpec == DeadlineInit /\ [][DeadlineNext]_vars


\* ---------------------------------------------------- the PTY handle
\* The PTY type used on its own: a caller makes NewPTY and then calls the
\* methods of the handle one after the other, in any order.
\* how many calls the caller makes
MaxPtyCalls == 4

\* the sizes the caller asks for
PtySizes == { << 80, 24 >>, << 1, 2 >> }

Called(op, err) == [op |-> op, err |-> err, n |-> call.n + 1]

\* NewPTY: pty.StartWithSize fails, or the handle and its child exist
CallNewPTY ==
  /\ spty = "nil"
  /\ call.n < MaxPtyCalls
  /\ \E created \in BOOLEAN, size \in PtySizes :
       IF created
       THEN /\ spty' = "ptr"
            /\ p' = NewPTY(size[1], size[2])
            /\ child' = NewChild
            /\ call' = Called("NewPTY", "nil")
       ELSE /\ call' = Called("NewPTY", "fork/exec failed")
            /\ UNCHANGED << spty, p, child >>
  /\ UNCHANGED << sessions, rpc, ppc, hpc, cancelled, closeOnce, muReaders,
                  writeMu, connClosed, wire, ptyIn, ptyReads, buffer,
                  pendingErr, nRecv, nTicks, panicking, crashed, lastMsg,
                  dataRecv, closeRecv, peer, codec, lastRead, shutdown, hook,
                  link >>

\* PTY.Read: a live child has output, a child that went away gives io.EOF
\* or an I/O error
CallRead ==
  /\ spty = "ptr"
  /\ call.n < MaxPtyCalls
  /\ IF p.closed
     THEN /\ call' = Called("Read", PTYRead(p, "nil"))
          /\ ptyReads' = ptyReads
     ELSE IF child.alive
     THEN \E chunk \in PtyChunks :
            /\ call' = Called("Read", PTYRead(p, "nil"))
            /\ ptyReads' = Append(ptyReads, chunk)
     ELSE \E e \in {"EOF", ErrIO} :
            /\ call' = Called("Read", PTYRead(p, e))
            /\ ptyReads' = ptyReads
  /\ UNCHANGED << sessions, rpc, ppc, hpc, cancelled, closeOnce, spty, p,
                  child, muReaders, writeMu, connClosed, wire, ptyIn, buffer,
                  pendingErr, nRecv, nTicks, panicking, crashed, lastMsg,
                  dataRecv, closeRecv, peer, codec, lastRead, shutdown, hook,
                  link >>

\* PTY.Write
CallWrite ==
  /\ spty = "ptr"
  /\ call.n < MaxPtyCalls
  /\ \E ok \in BOOLEAN :
       LET err == PTYWrite(p, ok)
       IN /\ call' = Called("Write", err)
          /\ ptyIn' = IF err = "nil" THEN ptyIn \o << 97 >> ELSE ptyIn
  /\ UNCHANGED << sessions, rpc, ppc, hpc, cancelled, closeOnce, spty, p,
                  child, muReaders, writeMu, connClosed, wire, ptyReads,
                  buffer, pendingErr, nRecv, nTicks, panicking, crashed,
                  lastMsg, dataRecv, closeRecv, peer, codec, lastRead,
                  shutdown, hook, link >>

\* PTY.Resize
CallResize ==
  /\ spty = "ptr"
  /\ call.n < MaxPtyCalls
  /\ \E ok \in BOOLEAN, size \in PtySizes :
       LET err == PTYResize(p, ok)
       IN /\ call' = Called("Resize", err)
          /\ p' = IF err = "nil"
                  THEN [p EXCEPT !.cols = size[1], !.rows = size[2]]
                  ELSE p
  /\ UNCHANGED << sessions, rpc, ppc, hpc, cancelled, closeOnce, spty,
                  child, muReaders, writeMu, connClosed, wire, ptyIn,
                  ptyReads, buffer, pendingErr, nRecv, nTicks, panicking,
                  crashed, lastMsg, dataRecv, closeRecv, peer, codec,
                  lastRead, shutdown, hook, link >>

\* PTY.SendSignal (SIGINT)
CallSendSignal ==
  /\ spty = "ptr"
  /\ call.n < MaxPtyCalls
  /\ LET err == PTYSendSignal(p)
     IN /\ call' = Called("SendSignal", err)
        /\ child' = IF err = "nil"
                    THEN [child EXCEPT !.sigs = Append(child.sigs, 2)]
                    ELSE child
  /\ UNCHANGED << sessions, rpc, ppc, hpc, cancelled, closeOnce, spty, p,
                  muReaders, writeMu, connClosed, wire, ptyIn, ptyReads,
                  buffer, pendingErr, nRecv, nTicks, panicking, crashed,
                  lastMsg, dataRecv, closeRecv, peer, codec, lastRead,
                  shutdown, hook, link >>

\* PTY.Close: it returns nil in every case
CallClose ==
  /\ spty = "ptr"
  /\ call.n < MaxPtyCalls
  /\ p' = PTYClose(p)
  /\ child' = PTYCloseChild(p, child)
  /\ call' = Called("Close", "nil")
  /\ UNCHANGED << sessions, rpc, ppc, hpc, cancelled, closeOnce, spty,
                  muReaders, writeMu, connClosed, wire, ptyIn, ptyReads,
                  buffer, pendingErr, nRecv, nTicks, panicking, crashed,
                  lastMsg, dataRecv, closeRecv, peer, codec, lastRead,
                  shutdown, hook, link >>

PtyNext ==
  \/ CallNewPTY
  \/ CallRead
  \/ CallWrite
  \/ CallResize
  \/ CallSendSignal
  \/ CallClose
  \/ ChildExit

PtyInit ==
  /\ SessionInit
  /\ peer = {}
  /\ codec = NoCodec
  /\ link = Link({}, {}, FALSE)

PtySpec == PtyInit /\ [][PtyNext]_vars


\* ------------------------------------------- the embedding application
\* App.OnShutdown of the wails example, the one shutdown path of the
\* repository: http.Server.Shutdown closes the listeners and the idle
\* connections and returns; it neither closes nor waits for hijacked
\* connections, and the Handler has no operation that reaches its sessions
Shutdown ==
  /\ ~crashed
  /\ ~shutdown
  /\ shutdown' = TRUE
  /\ UNCHANGED << sessions, rpc, ppc, hpc, cancelled, closeOnce, spty, p,
                  child, muReaders, writeMu, connClosed, wire, ptyIn,
                  ptyReads, buffer, pendingErr, nRecv, nTicks, panicking,
                  crashed, lastMsg, dataRecv, closeRecv, peer, codec,
                  lastRead, hook,
                  link, call >>

AppNext == Next \/ Shutdown

\* the handler mounted in an application that may shut its server down
AppSpec == PumpInit /\ [][AppNext]_vars

\* ---------------------------------------------------------- client hook
\* the reconnectAttempts option the hook is given in a run
ReconnectAttempts == 2

\* WebSockets the hook creates in a run, at most
MaxSockets == 3

\* calls of connect(), disconnect() and reconnect() by the component, at most
MaxCalls == 3

\* cleanup: clear the reconnect timer, detach the handlers of the current
\* socket and close it (after a CLOSE frame if it is open), reset the state
HookCleanup(h) ==
  LET h1 == IF h.timerRef # 0
            THEN [h EXCEPT !.timers[h.timerRef].pending = FALSE,
                           !.timerRef = 0]
            ELSE h
      h2 == IF h1.ws # 0
            THEN [h1 EXCEPT !.socks[h1.ws] = "detached", !.ws = 0]
            ELSE h1
  IN [h2 EXCEPT !.isConnecting = FALSE]

\* whether connect passes its guard; seen is the isConnecting its closure
\* captured
HookConnects(h, seen) ==
  ~((h.ws # 0 /\ h.socks[h.ws] = "open") \/ seen)

\* connect: past the guard, new WebSocket(url) becomes the current socket
HookConnectBody(h, seen) ==
  IF ~HookConnects(h, seen) THEN h
  ELSE [h EXCEPT !.isConnecting = TRUE, !.manual = FALSE,
                 !.socks = Append(h.socks, "connecting"),
                 !.ws = Len(h.socks) + 1,
                 !.lateOpen = h.lateOpen \/ h.disconnected]

\* disconnect
HookDisconnectBody(h) == HookCleanup([h EXCEPT !.manual = TRUE])

\* a step of the hook: the session and the codec are not involved
HookStep(h) ==
  /\ hook' = h
  /\ UNCHANGED << sessions, rpc, ppc, hpc, cancelled, closeOnce, spty, p,
                  child, muReaders, writeMu, connClosed, wire, ptyIn,
                  ptyReads, buffer, pendingErr, nRecv, nTicks, panicking,
                  crashed, lastMsg, dataRecv, closeRecv, peer, codec,
                  lastRead, shutdown,
                  link, call >>

\* the component calls connect().  The connect it holds was made in the
\* first render (isConnecting false) when the options are stable, in the
\* latest render otherwise
HookConnect ==
  /\ hook.calls < MaxCalls
  /\ \E seen \in {FALSE, hook.isConnecting} :
       LET h == [hook EXCEPT !.calls = @ + 1, !.disconnected = FALSE,
                             !.autoStarted = 0]
       IN /\ HookConnects(h, seen) => Len(hook.socks) < MaxSockets
          /\ HookStep(HookConnectBody(h, seen))

\* the component calls disconnect()
HookDisconnect ==
  /\ hook.calls < MaxCalls
  /\ HookStep([HookDisconnectBody(hook) EXCEPT !.calls = @ + 1,
                                               !.disconnected = TRUE])

\* the component calls reconnect(): disconnect(), then a 100 ms timer that
\* no ref keeps
HookReconnect ==
  /\ hook.calls < MaxCalls
  /\ \E seen \in {FALSE, hook.isConnecting} :
       LET h == HookDisconnectBody(hook)
       IN HookStep([h EXCEPT
            !.timers = Append(h.timers, [kind |-> "manual", pending |-> TRUE,
                                         seen |-> seen]),
            !.calls = @ + 1, !.disconnected = FALSE, !.autoStarted = 0])

\* a timer fires: the one of onclose calls connect(), the one of reconnect()
\* resets the count first
HookTimerFire ==
  \E t \in DOMAIN hook.timers :
    /\ hook.timers[t].pending
    /\ LET tm == hook.timers[t]
           h == [hook EXCEPT !.timers[t].pending = FALSE,
                             !.count = IF tm.kind = "manual" THEN 0 ELSE @]
       IN /\ HookConnects(h, tm.seen) => Len(hook.socks) < MaxSockets
          /\ HookStep(HookConnectBody(h, tm.seen))

\* a socket with handlers opens: ws.onopen
HookSocketOpen ==
  \E s \in DOMAIN hook.socks :
    /\ hook.socks[s] = "connecting"
    /\ HookStep([hook EXCEPT !.socks[s] = "open", !.isConnecting = FALSE,
                             !.count = 0, !.autoStarted = 0])

\* a socket with handlers reports an error: ws.onerror
HookSocketError ==
  \E s \in DOMAIN hook.socks :
    /\ hook.socks[s] \in {"connecting", "open"}
    /\ hook.isConnecting
    /\ HookStep([hook EXCEPT !.isConnecting = FALSE])

\* a socket with handlers closes (the server or the network ended it, or
\* the connection attempt failed): ws.onclose
HookSocketClose ==
  \E s \in DOMAIN hook.socks :
    /\ hook.socks[s] \in {"connecting", "open"}
    /\ LET h == [hook EXCEPT !.socks[s] = "closed", !.isConnecting = FALSE]
       IN IF ~h.manual /\ h.count < ReconnectAttempts
          THEN HookStep([h EXCEPT
                 !.count = @ + 1,
                 !.timers = Append(h.timers, [kind |-> "auto",
                                              pending |-> TRUE,
                                              seen |-> FALSE]),
                 !.timerRef = Len(h.timers) + 1,
                 !.autoStarted = @ + 1,
                 !.lateAuto = @ \/ h.disconnected])
          ELSE HookStep(h)

HookNext ==
  \/ HookConnect
  \/ HookDisconnect
  \/ HookReconnect
  \/ HookTimerFire
  \/ HookSocketOpen
  \/ HookSocketError
  \/ HookSocketClose

HookInit ==
  /\ SessionInit
  /\ peer = {}
  /\ codec = NoCodec
  /\ link = Link({}, {}, FALSE)

HookSpec == HookInit /\ [][HookNext]_vars

\* ------------------------------------------------------- the codec alone
\* longest payload of the exhaustively enumerated short payloads
MaxLen == 2

\* all sequences over S of length at most n
SeqsUpTo(S, n) == UNION { [1..k -> S] : k \in 0..n }

\* message types handed to Marshal: the six declared ones and two others
CodecTypes == { 0, MsgTypeData, MsgTypeResize, MsgTypeControl, MsgTypeError,
                MsgTypeHeartbeat, MsgTypeClose, 255 }

\* the payload of n bytes that repeats pat
Payload(n, pat) == [i \in 1..n |-> pat[((i - 1) % Len(pat)) + 1]]

\* payloads handed to Marshal, as (n, pat): every short one, and long ones
\* around the 16-bit limit
CodecPayloads ==
  { << Len(pat), pat >> : pat \in SeqsUpTo({0, 255}, MaxLen) \ { << >> } }
    \cup { << 0, << 0 >> >> }
    \cup { << n, pat >> : n \in (MaxPayload - 3)..(MaxPayload + 1),
                          pat \in { << 0 >>, << 255 >>, << 1, 2 >> } }

\* bytes of a length field
HeaderBytes == { 0, 1, 2, 253, 254, 255 }

\* byte strings handed to UnmarshalMessage directly: headers declaring small
\* and large lengths followed by short bodies, and strings shorter than a
\* header
RawInputs ==
  { << t, lo, hi >> \o body : t \in {MsgTypeData, 127}, lo \in HeaderBytes,
                              hi \in HeaderBytes,
                              body \in SeqsUpTo({0, 255}, MaxLen) }
    \cup SeqsUpTo(HeaderBytes, 2)

\* window dimensions handed to ResizeData.Marshal (uint16 values)
ResizeDims == { 0, 1, 24, 80, 255, 256, 257, 65534, 65535 }

\* byte strings handed to UnmarshalResizeData directly
ResizeRawInputs == SeqsUpTo({1, 255}, MaxLen + 3)

CodecInit ==
  /\ SessionInit
  /\ peer = {}
  /\ link = Link({}, {}, FALSE)
  /\ codec \in { [NoCodec EXCEPT !.pc = "args", !.type = t, !.n = pl[1],
                                 !.pat = pl[2]] :
                   t \in CodecTypes, pl \in CodecPayloads }
          \cup { [NoCodec EXCEPT !.pc = "raw", !.bytes = b] : b \in RawInputs }
          \cup { [NoCodec EXCEPT !.pc = "resizeArgs", !.cols = c, !.rows = r] :
                   c \in ResizeDims, r \in ResizeDims }
          \cup { [NoCodec EXCEPT !.pc = "resizeRaw", !.bytes = b] :
                   b \in ResizeRawInputs }

\* what is kept of a result of UnmarshalMessage
Decoded(r) == [err |-> r.err, type |-> r.type, len |-> Len(r.data)]

\* a call of Message.Marshal
CodecMarshal ==
  /\ codec.pc = "args"
  /\ LET m == Marshal(codec.type, Payload(codec.n, codec.pat))
     IN codec' = [codec EXCEPT !.pc = "encoded", !.encLen = Len(m.bytes),
                               !.encErr = m.err]
  /\ UNCHANGED << sessions, rpc, ppc, hpc, cancelled, closeOnce, spty, p,
                  child, muReaders, writeMu, connClosed, wire, ptyIn,
                  ptyReads, buffer, pendingErr, nRecv, nTicks, panicking,
                  crashed, lastMsg, dataRecv, closeRecv, peer,
                  lastRead, shutdown, hook,
                  link, call >>

\* a call of UnmarshalMessage on the bytes Marshal produced
CodecUnmarshal ==
  /\ codec.pc = "encoded"
  /\ codec.encErr = "nil"
  /\ LET payload == Payload(codec.n, codec.pat)
         r == UnmarshalMessage(Marshal(codec.type, payload).bytes)
     IN codec' = [codec EXCEPT !.pc = "decoded", !.dec = Decoded(r),
                               !.same = (r.data = payload)]
  /\ UNCHANGED << sessions, rpc, ppc, hpc, cancelled, closeOnce, spty, p,
                  child, muReaders, writeMu, connClosed, wire, ptyIn,
                  ptyReads, buffer, pendingErr, nRecv, nTicks, panicking,
                  crashed, lastMsg, dataRecv, closeRecv, peer,
                  lastRead, shutdown, hook,
                  link, call >>

\* a call of UnmarshalMessage on raw bytes
CodecUnmarshalRaw ==
  /\ codec.pc = "raw"
  /\ codec' = [codec EXCEPT !.pc = "rawDecoded",
                            !.dec = Decoded(UnmarshalMessage(codec.bytes))]
  /\ UNCHANGED << sessions, rpc, ppc, hpc, cancelled, closeOnce, spty, p,
                  child, muReaders, writeMu, connClosed, wire, ptyIn,
                  ptyReads, buffer, pendingErr, nRecv, nTicks, panicking,
                  crashed, lastMsg, dataRecv, closeRecv, peer,
                  lastRead, shutdown, hook,
                  link, call >>

\* a call of ResizeData.Marshal
CodecResizeMarshal ==
  /\ codec.pc = "resizeArgs"
  /\ codec' = [codec EXCEPT !.pc = "resizeEncoded",
                            !.bytes = ResizeMarshal(codec.cols, codec.rows)]
  /\ UNCHANGED << sessions, rpc, ppc, hpc, cancelled, closeOnce, spty, p,
                  child, muReaders, writeMu, connClosed, wire, ptyIn,
                  ptyReads, buffer, pendingErr, nRecv, nTicks, panicking,
                  crashed, lastMsg, dataRecv, closeRecv, peer,
                  lastRead, shutdown, hook,
                  link, call >>

\* a call of UnmarshalResizeData, on the bytes ResizeData.Marshal produced or
\* on raw bytes
CodecResizeUnmarshal ==
  /\ codec.pc \in {"resizeEncoded", "resizeRaw"}
  /\ codec' = [codec EXCEPT
                 !.pc = IF codec.pc = "resizeRaw" THEN "resizeRawDecoded"
                        ELSE "resizeDecoded",
                 !.rd = UnmarshalResizeData(codec.bytes)]
  /\ UNCHANGED << sessions, rpc, ppc, hpc, cancelled, closeOnce, spty, p,
                  child, muReaders, writeMu, connClosed, wire, ptyIn,
                  ptyReads, buffer, pendingErr, nRecv, nTicks, panicking,
                  crashed, lastMsg, dataRecv, closeRecv, peer,
                  lastRead, shutdown, hook,
                  link, call >>

\* a call of the client's encodeMessage
CodecClientEncode ==
  /\ codec.pc = "args"
  /\ LET b == ClientEncodeMessage(codec.type, Payload(codec.n, codec.pat))
     IN codec' = [codec EXCEPT !.pc = "clientEncoded", !.encLen = Len(b),
                               !.lenField = Uint16LE(b, 2)]
  /\ UNCHANGED << sessions, rpc, ppc, hpc, cancelled, closeOnce, spty, p,
                  child, muReaders, writeMu, connClosed, wire, ptyIn,
                  ptyReads, buffer, pendingErr, nRecv, nTicks, panicking,
                  crashed, lastMsg, dataRecv, closeRecv, peer,
                  lastRead, shutdown, hook,
                  link, call >>

\* the server's UnmarshalMessage on the bytes the client encoder produced
CodecServerDecode ==
  /\ codec.pc = "clientEncoded"
  /\ LET payload == Payload(codec.n, codec.pat)
         r == UnmarshalMessage(ClientEncodeMessage(codec.type, payload))
     IN codec' = [codec EXCEPT !.pc = "clientDecoded", !.dec = Decoded(r),
                               !.same = (r.data = payload)]
  /\ UNCHANGED << sessions, rpc, ppc, hpc, cancelled, closeOnce, spty, p,
                  child, muReaders, writeMu, connClosed, wire, ptyIn,
                  ptyReads, buffer, pendingErr, nRecv, nTicks, panicking,
                  crashed, lastMsg, dataRecv, closeRecv, peer,
                  lastRead, shutdown, hook,
                  link, call >>

CodecNext ==
  \/ CodecClientEncode
  \/ CodecServerDecode
  \/ CodecMarshal
  \/ CodecUnmarshal
  \/ CodecUnmarshalRaw
  \/ CodecResizeMarshal
  \/ CodecResizeUnmarshal

CodecSpec == CodecInit /\ [][CodecNext]_vars


\* ================================================================ claims
Range(f) == { f[i] : i \in DOMAIN f }

\* the lifecycle state of the session
State ==
  IF rpc = "done" THEN "Closed" ELSE IF cancelled THEN "Draining" ELSE "Open"

\* C1: after a CLOSE frame is received on a session with a live PTY, the
\* session eventually closes the transport and requests termination of the
\* child (SIGTERM), whatever the peer and the PTY do afterwards.
C1_CloseTerminates ==
  closeRecv ~> (connClosed /\ SIGTERM \in Range(child.sigs))

\* C2: once an exit path is taken (cancel fired by a CLOSE frame or a failed
\* write or ping, the reader's read failed, the child exited), the session
\* eventually is Closed: its cleanup has run to completion.
C2_EventuallyClosed ==
  (cancelled \/ rpc = "cleanup" \/ (spty = "ptr" /\ ~child.alive))
    ~> (State = "Closed")

\* C3: a Closed session has its PTY handle closed (if one was created) and
\* is no longer in the handler's registry.
C3_ClosedReleased ==
  State = "Closed" => (Sid \notin sessions /\ (spty = "ptr" => p.closed))

\* C4: no message of the peer makes the reader goroutine panic.
C4_NeverPanics == ~panicking /\ ~crashed

\* C5: decoding the bytes Marshal produced for (type, payload) returns the
\* same type and payload, and the frame covers 3 + |payload| bytes.
C5_RoundTrip ==
  codec.pc = "decoded" =>
    /\ codec.dec.err = "nil"
    /\ codec.dec.type = codec.type
    /\ codec.same
    /\ codec.encLen = 3 + codec.n

\* C6: an input of at least 3 bytes that is shorter than 3 + L, L being the
\* length its header declares, decodes to the truncated-payload error; the
\* sum 3 + L is the integer sum.
C6_TruncatedRejected ==
  (/\ codec.pc = "rawDecoded"
   /\ Len(codec.bytes) >= 3
   /\ Len(codec.bytes) < 3 + Uint16LE(codec.bytes, 2))
    => codec.dec.err = "incomplete message"

\* C7: the bytes written to the PTY master are exactly the concatenation of
\* the payloads of the DATA frames received, in frame order.
C7_PtyReceivesConcat == ptyIn = dataRecv

\* the DATA frames handed to the transport, in order
WireDataFrames ==
  SelectSeq(wire, LAMBDA m : m.kind = "binary" /\ m.type = MsgTypeData)

\* their payloads, decoded from the bytes on the wire
WireData ==
  [i \in 1..Len(WireDataFrames) |->
     UnmarshalMessage(WireDataFrames[i].bytes).data]

\* the reads whose DATA frame the pump has already handed to the transport
ReadsForwarded ==
  IF ppc \in {"send", "write"}
  THEN SubSeq(ptyReads, 1, Len(ptyReads) - 1)
  ELSE ptyReads

\* C8: the DATA frames handed to the transport carry, frame by frame and in
\* read order, exactly the bytes of the pump's PTY reads, whatever ERROR
\* frames and pings the other goroutines write in between; and only the
\* last of them can be a frame whose write failed.
C8_WireCarriesReads ==
  /\ WireData = ReadsForwarded
  /\ \A i \in 1..(Len(WireDataFrames) - 1) : WireDataFrames[i].ok

\* C8 witness: two different reads were forwarded as two DATA frames, with
\* an ERROR frame and a ping of the other goroutines on the transport, one
\* of them between the two DATA frames.
C8_Witness ==
  /\ Len(ptyReads) = 2
  /\ ptyReads[1] # ptyReads[2]
  /\ WireData = ptyReads
  /\ \A i \in DOMAIN wire : wire[i].ok
  /\ \E i, j \in DOMAIN wire : wire[i].kind = "ping"
                               /\ wire[j].type = MsgTypeError
  /\ \E i, j, k \in DOMAIN wire :
       /\ i < j /\ j < k
       /\ wire[i].type = MsgTypeData
       /\ wire[j].type # MsgTypeData
       /\ wire[k].type = MsgTypeData

\* the messages C9 is about, by the integer value of the declared length:
\* short or truncated frame, unknown type, RESIZE payload under 4 bytes,
\* CONTROL with no PTY or with an empty payload
Malformed(data, hasPty) ==
  \/ Len(data) < 3
  \/ /\ Len(data) >= 3
     /\ LET declared == Uint16LE(data, 2) IN
        \/ Len(data) < 3 + declared
        \/ data[1] \notin MsgTypeData..MsgTypeClose
        \/ data[1] = MsgTypeResize /\ declared < 4
        \/ data[1] = MsgTypeControl /\ (~hasPty \/ declared < 1)

\* C9: handling a malformed message sends one ERROR frame (the reader goes
\* on to sendError) and leaves the session Open: the step fires no cancel
\* and the reader goroutine does not die.
C9_MalformedIsLocal ==
  [][(rpc = "read" /\ nRecv' = nRecv + 1 /\ Malformed(lastMsg', spty = "ptr"))
       => (rpc' = "errLock" /\ cancelled' = cancelled /\ ~panicking')]_vars

\* C10: the PTY window size never has a zero dimension.
C10_NoZeroWindow == spty = "ptr" => (p.cols > 0 /\ p.rows > 0)

\* C13: Marshal of a payload longer than 65535 bytes returns an error and no
\* bytes, whatever the type; Marshal of a payload of 0..65535 bytes succeeds
\* and returns the whole frame.
C13_OversizeRefused ==
  codec.pc \in {"encoded", "decoded"} =>
    IF codec.n > MaxPayload
    THEN codec.encErr # "nil" /\ codec.encLen = 0
    ELSE codec.encErr = "nil" /\ codec.encLen = 3 + codec.n

\* C13 witness: a 65536-byte payload was refused
C13_Witness ==
  /\ codec.pc = "encoded"
  /\ codec.n = MaxPayload + 1
  /\ codec.encErr = "message data too large"
  /\ codec.encLen = 0

\* C14: UnmarshalMessage of any input of 0, 1 or 2 bytes returns the
\* short-frame error and no frame.
C14_ShortRejected ==
  (codec.pc = "rawDecoded" /\ Len(codec.bytes) < 3) =>
    codec.dec = [err |-> "message too short", type |-> 0, len |-> 0]

\* C14 witness: a 2-byte input was rejected as too short
C14_Witness ==
  /\ codec.pc = "rawDecoded"
  /\ Len(codec.bytes) = 2
  /\ codec.dec.err = "message too short"

\* C15: for cols and rows in 0..65535, UnmarshalResizeData of the 4 bytes
\* ResizeData.Marshal produced returns the same cols and rows with no error;
\* UnmarshalResizeData of fewer than 4 bytes returns an error.
C15_ResizeRoundTrip ==
  /\ codec.pc = "resizeDecoded" =>
       /\ Len(codec.bytes) = 4
       /\ codec.rd = [err |-> "nil", cols |-> codec.cols, rows |-> codec.rows]
  /\ (codec.pc = "resizeRawDecoded" /\ Len(codec.bytes) < 4) =>
       codec.rd.err = "invalid resize data"

\* C15 witness: (65535, 256) went through the round trip
C15_Witness ==
  /\ codec.pc = "resizeDecoded"
  /\ codec.cols = 65535
  /\ codec.rows = 256
  /\ codec.rd = [err |-> "nil", cols |-> 65535, rows |-> 256]

\* C16: the bytes the client's encodeMessage produces for (type, payload)
\* are decoded by the server's UnmarshalMessage to the same type and
\* payload, and the 16-bit length field of the frame is the payload length
\* (encodeMessage has no failure path, so it never fails instead).
C16_ClientServerAgree ==
  /\ codec.pc \in {"clientEncoded", "clientDecoded"} =>
       codec.lenField = codec.n
  /\ codec.pc = "clientDecoded" =>
       /\ codec.dec.err = "nil"
       /\ codec.dec.type = codec.type
       /\ codec.same

\* C12: after the read deadline passed with no pong (conn.ReadMessage
\* returned the timeout error), the session is disconnected: its cleanup
\* runs to the end and the transport is closed.
C12_DeadlineDisconnects ==
  (lastRead = "timeout") ~> (closeOnce /\ connClosed /\ rpc = "done")

\* C17: a transport message of Text kind is ignored: handling it creates no
\* PTY, writes, resizes and signals nothing, fires no cancel, and sends no
\* ERROR frame (the reader goes back to the head of its loop).
C17_NonBinaryIgnored ==
  [][(rpc = "read" /\ nRecv' = nRecv + 1 /\ lastRead' = "text")
       => (/\ rpc' = "select"
           /\ UNCHANGED << spty, p, child, ptyIn, ppc, cancelled,
                           pendingErr, panicking >>)]_vars

\* C19: when PTY.Close is called while PTY.Read is blocked on the master,
\* Close completes (handle marked closed, master closed, child signalled)
\* and the blocked read returns, with no output of the PTY needed.
C19_CloseUnblocksRead ==
  (rpc = "ptyClose" /\ ppc = "reading")
    ~> (p.closed /\ ~p.masterOpen /\ SIGTERM \in Range(child.sigs)
        /\ ppc # "reading")

\* the SIGTERMs the child was sent (PTY.Close sends one)
Sigterms(ch) == { i \in DOMAIN ch.sigs : ch.sigs[i] = SIGTERM }

\* C20: the body of cleanup runs at most once (it is entered only with the
\* one-shot guard unfired, and the guard never resets); the PTY close of
\* cleanup finds the handle open and closes it, and the child gets at most
\* one SIGTERM; the transport close of cleanup finds the transport open
\* and its completion makes the session Closed; Closed is terminal.
C20_CleanupOnce ==
  [][/\ closeOnce => closeOnce'
     /\ (rpc = "cleanup" /\ rpc' \in {"ptyClose", "connClose"})
          => (~closeOnce /\ closeOnce')
     /\ (rpc = "ptyClose" /\ rpc' # "ptyClose")
          => (closeOnce /\ ~p.closed /\ p'.closed /\ rpc' = "connClose")
     /\ p.closed => p' = p
     /\ Cardinality(Sigterms(child')) <= 1
     /\ (rpc = "connClose" /\ rpc' # "connClose")
          => (closeOnce /\ ~connClosed /\ connClosed' /\ State' = "Closed")
     /\ connClosed => connClosed'
     /\ State = "Closed" => State' = "Closed"]_vars

\* C20 witness: a session with a PTY is Closed after cleanup closed the PTY
\* (one SIGTERM sent) and the transport
C20_Witness ==
  /\ State = "Closed"
  /\ closeOnce
  /\ spty = "ptr"
  /\ p.closed
  /\ Cardinality(Sigterms(child)) = 1
  /\ connClosed

\* C11: when the shutdown of the server has returned, every session that
\* was accepted before it is Closed.
C11_ShutdownClosesAll ==
  (shutdown /\ rpc # "idle") => State = "Closed"

\* C18: an automatic reconnect is never started while the hook is
\* disconnected by disconnect(); since the last successful open (or call of
\* connect() or reconnect()) at most reconnectAttempts automatic reconnects
\* were started; and no socket is created after disconnect() before
\* connect() or reconnect() is called.
C18_ReconnectDiscipline ==
  /\ ~hook.lateAuto
  /\ hook.autoStarted <= ReconnectAttempts
  /\ ~hook.lateOpen

\* C21: in cleanup the session's cancel is fired before the PTY handle is
\* closed, and the PTY handle, if there is one, is closed before the
\* transport is closed.
C21_CleanupOrder ==
  [][/\ (~p.closed /\ p'.closed) => (cancelled /\ ~connClosed)
     /\ (~connClosed /\ connClosed')
          => (cancelled /\ (spty = "ptr" => p.closed))]_vars

\* C21 witness: cleanup stands between its PTY close and its transport
\* close: cancel fired, the PTY closed, the transport still open
C21_Witness ==
  /\ rpc = "connClose"
  /\ cancelled
  /\ spty = "ptr"
  /\ p.closed
  /\ ~connClosed

\* the goroutines that are inside the write-locked region of sendMessage or
\* of the heartbeat, about to call conn.WriteMessage
Writers ==
  (IF rpc = "errWrite" THEN {"reader"} ELSE {})
    \cup (IF ppc \in {"write", "errWrite"} THEN {"pump"} ELSE {})
    \cup (IF hpc = "write" THEN {"hb"} ELSE {})

C23_EofDrains ==
  [][(ppc \in {"callRead", "reading"} /\ ppc' = "done")
       => (wire' = wire /\ cancelled')]_vars

\* C24: when the pump's PTY read fails with another error than EOF, the
\* pump hands one ERROR frame to the transport, and with it the session's
\* cancel is fired (the session is Draining).
C24_ReadErrorDrains ==
  [][(ppc = "errWrite" /\ ppc' = "done")
       => (/\ Len(wire') = Len(wire) + 1
           /\ wire'[Len(wire')].type = MsgTypeError
           /\ cancelled')]_vars

\* C25: once the session's cancel has fired the pump does no further I/O: a
\* PTY read that was blocked when cancel fired ends the pump when it
\* returns, and the pump hands no DATA or ERROR frame to the transport.
C25_NoPumpIoAfterCancel ==
  [][cancelled =>
       /\ ppc = "reading" => ppc' \in {"reading", "done"}
       /\ ppc \in {"write", "errWrite"} => wire' = wire]_vars

\* the reader has sent the ERROR frame for the message it handled and goes
\* back to its loop
ErrorReported == rpc = "errWrite" /\ rpc' = "select"

\* C26: when the PTY write of a DATA frame failed, the session closes: by
\* the time the reader is back at its loop (the error reported), the
\* session's cancel is fired, so that no further frame is dispatched.
C26_WriteFailureCloses ==
  [][(/\ ErrorReported
      /\ UnmarshalMessage(lastMsg).type = MsgTypeData
      /\ pendingErr \in {ErrIO, ErrClosedPipe})
       => cancelled']_vars

\* C27: when NewPTY failed on a DATA or RESIZE frame, the session sends an
\* ERROR frame and closes: by the time the reader is back at its loop, the
\* session's cancel is fired, so that no later frame creates a PTY.
C27_CreateFailureCloses ==
  [][(ErrorReported /\ pendingErr = "failed to create PTY")
       => (/\ wire'[Len(wire')].type = MsgTypeError
           /\ cancelled')]_vars

\* C29: once the session's cancel has fired, no frame the reader receives
\* creates a PTY, or is written, resized or signalled to the PTY.
C29_DrainingAcceptsNothing ==
  [][(cancelled /\ nRecv' = nRecv + 1)
       => UNCHANGED << spty, p, child, ptyIn, ppc >>]_vars

\* C28: when a write to the transport fails (a DATA or ERROR frame of
\* sendMessage, a ping of the heartbeat), the session's cancel is fired,
\* the write lock is free again, and the writer does not retry: the reader
\* and the pump are past the frame, the heartbeat has ended.
C28_WriteFailureCancels ==
  [][(Len(wire') = Len(wire) + 1 /\ ~wire'[Len(wire')].ok)
       => (/\ cancelled'
           /\ writeMu' = "none"
           /\ writeMu = "reader" => (rpc' = "select" /\ pendingErr' = "nil")
           /\ writeMu = "pump" => ppc' \in {"select", "done"}
           /\ writeMu = "hb" => hpc' = "done")]_vars

\* C28 witness: the pump's write of a DATA frame failed; cancel is fired,
\* the lock is free and the pump is back at the head of its loop
C28_Witness ==
  /\ Len(wire) > 0
  /\ wire[Len(wire)].type = MsgTypeData
  /\ ~wire[Len(wire)].ok
  /\ cancelled
  /\ writeMu = "none"
  /\ ppc = "select"

\* a well-formed CONTROL frame
IsControl(data) ==
  LET msg == UnmarshalMessage(data)
  IN msg.err = "nil" /\ msg.type = MsgTypeControl

\* C30: handling a CONTROL frame while the session has no PTY leaves the
\* PTY absent and no pump started, and the missing PTY is reported: the
\* reader goes on to send the ERROR frame "no PTY available", and sends it.
C30_ControlCreatesNothing ==
  [][/\ (rpc = "read" /\ nRecv' = nRecv + 1 /\ spty = "nil"
         /\ IsControl(lastMsg'))
          => (/\ spty' = "nil" /\ p' = p /\ child' = child
              /\ ppc = "idle" /\ ppc' = "idle"
              /\ rpc' = "errLock"
              /\ pendingErr' = "no PTY available")
     /\ (ErrorReported /\ pendingErr = "no PTY available")
          => (/\ wire'[Len(wire')].type = MsgTypeError
              /\ spty' = "nil" /\ ppc' = "idle")]_vars

\* C30 witness: a CONTROL SIGINT frame was handled with no PTY; the ERROR
\* frame is sent, there is still no PTY and no pump
C30_Witness ==
  /\ lastMsg = << 3, 1, 0, 2 >>
  /\ rpc = "select"
  /\ spty = "nil"
  /\ ppc = "idle"
  /\ Len(wire) > 0
  /\ wire[Len(wire)].type = MsgTypeError

\* C31: a session has no PTY, no child and no pump until a well-formed DATA
\* or RESIZE frame is handled; that frame creates the PTY at 80x24 (a RESIZE
\* frame then sets the size it carries) with its child and starts the pump;
\* from then on the session keeps that PTY, no other is created and no other
\* pump is started; the master is read only by a step of the pump and
\* written only by the reader handling a DATA frame.
CreatesPty(data) ==
  LET msg == UnmarshalMessage(data)
  IN msg.err = "nil" /\ msg.type \in {MsgTypeData, MsgTypeResize}

CreatedPty(data) ==
  LET msg == UnmarshalMessage(data)
      rd == UnmarshalResizeData(msg.data)
  IN {NewPTY(80, 24)} \cup
     (IF msg.type = MsgTypeResize /\ rd.err = "nil"
      THEN {NewPTY(rd.cols, rd.rows)} ELSE {})

IsPrefix(s, t) == Len(s) <= Len(t) /\ SubSeq(t, 1, Len(s)) = s

C31_LazySinglePty ==
  [][/\ spty = "nil" =>
          /\ p = NoPTY /\ child = NoChild /\ ppc = "idle"
          /\ ptyIn = << >> /\ ptyReads = << >>
     /\ (spty = "nil" /\ spty' = "ptr") =>
          /\ rpc = "read" /\ nRecv' = nRecv + 1 /\ CreatesPty(lastMsg')
          /\ p' \in CreatedPty(lastMsg')
          /\ child' = NewChild
          /\ ppc' = "select"
     /\ spty = "ptr" =>
          /\ spty' = "ptr"
          /\ p'.masterOpen => p.masterOpen
          /\ p.closed => p'.closed
          /\ child'.alive => child.alive
          /\ IsPrefix(child.sigs, child'.sigs)
          /\ ppc # "idle" /\ ppc' # "idle"
          /\ ppc = "done" => ppc' = "done"
     /\ ptyReads' # ptyReads =>
          /\ ppc = "reading" /\ ppc' # "reading"
          /\ rpc' = rpc /\ hpc' = hpc
     /\ ptyIn' # ptyIn =>
          /\ rpc = "read" /\ nRecv' = nRecv + 1
          /\ UnmarshalMessage(lastMsg').type = MsgTypeData
          /\ ptyIn' = ptyIn \o UnmarshalMessage(lastMsg').data
          /\ hpc' = hpc
          /\ ppc' = ppc \/ spty = "nil"]_vars

\* the PTY was created by a DATA frame, a second frame was handled with the
\* PTY in place, and the pump has read from the master
C31_Witness ==
  /\ spty = "ptr" /\ p.cols = 80 /\ p.rows = 24
  /\ nRecv >= 2 /\ Len(ptyIn) >= 2 /\ Len(ptyReads) >= 1

\* C32: a successful conn.ReadMessage sets the read deadline to 60 s after
\* the time of the read, and so the read deadline ends a read only when at
\* least 60 s have passed since the last frame was received.
C32_ReadsRearmDeadline ==
  [][/\ (rpc = "read" /\ nRecv' = nRecv + 1) =>
          link'.deadline = link.now + ReadDeadline
     /\ (rpc = "read" /\ lastRead' = "timeout") =>
          link.now >= link.readAt + ReadDeadline]_vars

\* C33: a call made on a closed PTY handle changes neither the handle, nor
\* the master (nothing is read from it or written to it), nor the child;
\* Read, Write, Resize and SendSignal return the closed-handle error
\* io.ErrClosedPipe, and Close returns nil.
C33_ClosedAbsorbing ==
  [][(p.closed /\ call'.n = call.n + 1) =>
       /\ p' = p /\ child' = child
       /\ ptyIn' = ptyIn /\ ptyReads' = ptyReads
       /\ call'.op \in {"Read", "Write", "Resize", "SendSignal"}
            => call'.err = ErrClosedPipe
       /\ call'.op = "Close" => call'.err = "nil"]_vars

\* C34: a closed PTY handle was released in this order: the master was
\* closed, then the child was sent SIGTERM, then the handle's cancel fired.
C34_CloseOrder ==
  p.closed => p.closeLog = << "master", "signal", "cancel" >>

====
